---- MODULE Spec2Model ----
(***************************************************************************)
(* The signalling relay of src/src/index.ts: the socket.io connection      *)
(* handler with its join / id / pushstate / leave / signal / disconnect    *)
(* callbacks, the two process-wide maps (clients, states), the connection  *)
(* counter, and the room membership kept by the socket.io adapter.         *)
(*                                                                         *)
(* Names (lobby codes and socket ids) are strings in the program.  The     *)
(* model numbers them: name n with n \in Sessions is the socket.id of      *)
(* session n, the names in LobbyCodes are strings that are no socket id.   *)
(* A lobby code is any string a client sends, so it may be either.         *)
(***************************************************************************)
EXTENDS Integers, FiniteSets, Sequences, TLC

\* inbound messages handled in one behaviour
MaxMsgs == 4
\* join messages handled in one behaviour of JoinSpec
MaxJoins == 3

Sessions == {1, 2, 3}
LobbyCodes == {4, 5}
\* the sessions that connect when every kind of message is sent
Callers == {1, 2}
RoomNames == Sessions \cup LobbyCodes

\* Math.pow(2, 32) - 1, the client's "no clientId" value.  The handlers only
\* compare clientIds for equality, so the model stands the largest integer of
\* the checker (2^31 - 1) for it.
Sentinel == 2147483647
\* the JavaScript null, as a clientId or as the per-connection code
Null == -1

PlayerIds == {0, 1}
ClientIds == {5, 6, Sentinel}
GameStates == {0, 1}

\* JavaScript values as the handlers see them: typeof and the value
Num(v) == [type |-> "number", val |-> v]
Str(v) == [type |-> "string", val |-> v]
Undef == [type |-> "undefined", val |-> 0]

\* clients.get(s) for a key the map does not hold
Undefined == [undefined |-> TRUE]

VARIABLES
    status,           \* session -> "unconnected" | "connected" | "disconnected"
    code,             \* session -> the connection's `code` variable (Null or a name)
    rooms,            \* io.sockets.adapter.rooms: name -> set of sessions
    clients,          \* the clients map: a function on the sessions it holds
    states,           \* the states map: a function on the lobby codes it holds
    connectionCount,
    crashed,          \* an exception left a handler: the process is gone
    out,              \* what the last step emitted
    log,              \* the last logger call: its line in index.ts and the
                      \* socket whose callback made it
    msgs,             \* history: number of inbound messages handled
    asserted,         \* history, kept by JoinSpec only: session -> the clientId
                      \* of its last accepted join
    firstId           \* history, kept by IdSpec only: session -> the first
                      \* non-null clientId bound to it

vars == <<status, code, rooms, clients, states, connectionCount, crashed, out,
          log, msgs, asserted, firstId>>

NoOut == [bcast |-> {}, setClients |-> {}, signal |-> {}]

\* the clientId stored as it came
NormalizeNot(clientId) == clientId

\* clientId === Math.pow(2, 32) - 1 ? null : clientId
Normalize(clientId) == IF clientId = Sentinel THEN Null ELSE clientId

\* Map.delete
MapDelete(m, k) == [x \in (DOMAIN m) \ {k} |-> m[x]]

\* Map.set
MapSet(m, k, v) == [x \in (DOMAIN m) \cup {k} |-> IF x = k THEN v ELSE m[x]]

\* Map.get
MapGet(m, k) == IF k \in DOMAIN m THEN m[k] ELSE Undefined

\* socket.leaveAll(), done by socket.disconnect() and by a transport close
LeaveAll(s) == [r \in RoomNames |-> rooms[r] \ {s}]

Init ==
    /\ status = [s \in Sessions |-> "unconnected"]
    /\ code = [s \in Sessions |-> Null]
    /\ rooms = [r \in RoomNames |-> {}]
    /\ clients = <<>>
    /\ states = <<>>
    /\ connectionCount = 0
    /\ crashed = FALSE
    /\ out = NoOut
    /\ log = [line |-> 234, socket |-> Null]
    /\ msgs = 0
    /\ asserted = [s \in Sessions |-> Null]
    /\ firstId = [s \in Sessions |-> Null]

\* logger.info / logger.error at a line of index.ts
Logged(line, s) == log' = [line |-> line, socket |-> s]

\* a socket whose callbacks still run after it has disconnected
LiveOnceConnected(s) == ~crashed /\ status[s] # "unconnected"

\* a socket is live: its handlers run
Live(s) == ~crashed /\ status[s] = "connected"

\* an inbound message may be handled
Inbound(s) == Live(s) /\ msgs < MaxMsgs

\* the names a client can send: any string, among them the ids handed out so far
KnownNames == LobbyCodes \cup {s \in Sessions : status[s] # "unconnected"}

\* io.on('connection') without connectionCount++
ConnectUncounted(s) ==
    /\ ~crashed
    /\ status[s] = "unconnected"
    /\ status' = [status EXCEPT ![s] = "connected"]
    /\ rooms' = [rooms EXCEPT ![s] = @ \cup {s}]
    /\ connectionCount' = connectionCount
    /\ Logged(136, s)
    /\ out' = NoOut
    /\ UNCHANGED <<code, clients, states, crashed, msgs, asserted, firstId>>

\* io.on('connection'): the socket joins the room named by its own id
Connect(s) ==
    /\ ~crashed
    /\ status[s] = "unconnected"
    /\ status' = [status EXCEPT ![s] = "connected"]
    /\ rooms' = [rooms EXCEPT ![s] = @ \cup {s}]
    /\ connectionCount' = connectionCount + 1
    /\ Logged(136, s)
    /\ out' = NoOut
    /\ UNCHANGED <<code, clients, states, crashed, msgs, asserted, firstId>>

\* the 'disconnect' callback without clients.delete
OnDisconnectKeeps(s) ==
    /\ clients' = clients
    /\ connectionCount' = connectionCount - 1

\* socket.on('disconnect')
OnDisconnect(s) ==
    /\ clients' = MapDelete(clients, s)
    /\ connectionCount' = connectionCount - 1

\* the socket closes: it leaves every room, then the 'disconnect' callback runs
Close(s) ==
    /\ status' = [status EXCEPT ![s] = "disconnected"]
    /\ rooms' = LeaveAll(s)
    /\ OnDisconnect(s)
    /\ out' = NoOut

\* socket.disconnect() inside a handler, which returns right after
ForcedDisconnect(s) ==
    /\ Close(s)
    /\ UNCHANGED <<code, states, crashed>>

\* the transport closes
Disconnect(s) ==
    /\ Live(s)
    /\ Close(s)
    /\ Logged(227, s)
    /\ UNCHANGED <<code, states, crashed, msgs, asserted, firstId>>

\* the anti-spoof scan of 'join': some socket of room c is bound to clientId
Spoofs(c, clientId) ==
    \E m \in rooms[c] : m \in DOMAIN clients /\ clients[m].clientId = clientId

\* otherClients without the test s !== socket.id
OtherClientsAll(s, c) == [m \in rooms[c] |-> MapGet(clients, m)]

\* otherClients as 'join' builds it
OtherClients(s, c) == [m \in rooms[c] \ {s} |-> MapGet(clients, m)]

\* socket.to(room).broadcast.emit(event, socket.id, identity)
Broadcast(s, room, event, identity) ==
    IF room = Null THEN {}
    ELSE {[to |-> m, event |-> event, from |-> s, identity |-> identity] :
             m \in rooms[room] \ {s}}

\* 'join' emitting with io.to(code) for socket.to(code).broadcast: the joiner
\* hears its own join event
JoinOutEcho(s, c, id, clientId) ==
    [bcast |-> {[to |-> m, event |-> "join", from |-> s,
                 identity |-> [playerId |-> id, clientId |-> Normalize(clientId)]] :
                   m \in rooms[c] \cup {s}},
     setClients |-> {[to |-> s, clients |-> OtherClients(s, c)]},
     signal |-> {}]

\* what 'join' emits: the join event to the room, setClients to the joiner
JoinOut(s, c, id, clientId) ==
    [bcast |-> Broadcast(s, c, "join",
                  [playerId |-> id, clientId |-> Normalize(clientId)]),
     setClients |-> {[to |-> s, clients |-> OtherClients(s, c)]},
     signal |-> {}]

\* the type check of 'join'
JoinTyped(c, id, clientId) ==
    c.type = "string" /\ id.type = "number" /\ clientId.type = "number"

\* 'join' gets past its two early returns
JoinAccepted(c, id, clientId) ==
    JoinTyped(c, id, clientId) /\ ~Spoofs(c.val, clientId.val)

\* the body of socket.on('join')
JoinHandler(s, c, id, clientId) ==
    /\ Inbound(s)
    /\ msgs' = msgs + 1
    /\ IF ~JoinTyped(c, id, clientId)
       THEN ForcedDisconnect(s) /\ Logged(142, s)
       ELSE IF Spoofs(c.val, clientId.val)
       THEN ForcedDisconnect(s) /\ Logged(154, s)
       ELSE /\ Logged(146, s)
            /\ code' = [code EXCEPT ![s] = c.val]
            /\ rooms' = [rooms EXCEPT ![c.val] = @ \cup {s}]
            /\ out' = JoinOut(s, c.val, id.val, clientId.val)
            /\ UNCHANGED <<status, clients, states, connectionCount, crashed>>

\* socket.on('join')
Join(s, c, id, clientId) ==
    /\ JoinHandler(s, c, id, clientId)
    /\ UNCHANGED <<asserted, firstId>>

\* socket.on('join'), with the asserted clientId written to the history
JoinRecorded(s, c, id, clientId) ==
    /\ msgs < MaxJoins
    /\ JoinHandler(s, c, id, clientId)
    /\ asserted' = IF JoinAccepted(c, id, clientId)
                   THEN [asserted EXCEPT ![s] = clientId.val]
                   ELSE asserted
    /\ UNCHANGED firstId

\* the mismatch test of 'id' comparing with == : a stored identity never
\* conflicts
ConflictNever(s, clientId) == FALSE

\* the mismatch test of 'id'
Conflict(s, clientId) ==
    /\ s \in DOMAIN clients
    /\ clients[s].clientId # Null
    /\ clients[s].clientId # clientId

\* the body of socket.on('id')
IdHandler(s, id, clientId) ==
    /\ Inbound(s)
    /\ msgs' = msgs + 1
    /\ IF id.type # "number" \/ clientId.type # "number"
       THEN ForcedDisconnect(s) /\ Logged(173, s)
       ELSE IF Conflict(s, clientId.val)
       THEN ForcedDisconnect(s) /\ Logged(182, s)
       ELSE LET client == [playerId |-> id.val,
                           clientId |-> Normalize(clientId.val)]
            IN /\ Logged(177, s)
               /\ clients' = MapSet(clients, s, client)
               /\ out' = [bcast |-> Broadcast(s, code[s], "setClient", client),
                          setClients |-> {},
                          signal |-> {}]
               /\ UNCHANGED <<status, code, rooms, states, connectionCount,
                              crashed>>

\* socket.on('id')
Id(s, id, clientId) ==
    /\ IdHandler(s, id, clientId)
    /\ UNCHANGED <<asserted, firstId>>

\* socket.on('id'), with the first non-null clientId written to the history
IdRecorded(s, id, clientId) ==
    /\ IdHandler(s, id, clientId)
    /\ firstId' = IF /\ firstId[s] = Null
                     /\ s \in DOMAIN clients'
                     /\ clients'[s].clientId # Null
                  THEN [firstId EXCEPT ![s] = clients'[s].clientId]
                  ELSE firstId
    /\ UNCHANGED asserted

\* an uncaught exception in a callback ends the process: every connection
\* drops and what the process held in memory is lost
Crash ==
    /\ crashed' = TRUE
    /\ status' = [s \in Sessions |->
                    IF status[s] = "connected" THEN "disconnected" ELSE status[s]]
    /\ code' = [s \in Sessions |-> Null]
    /\ rooms' = [r \in RoomNames |-> {}]
    /\ clients' = <<>>
    /\ states' = <<>>
    /\ connectionCount' = 0
    /\ out' = NoOut

\* socket.on('pushstate'): state is a string that JSON.parse turns into
\* state.json, or that JSON.parse throws on (state.parses is FALSE)
PushState(s, state) ==
    /\ Inbound(s)
    /\ msgs' = msgs + 1
    /\ UNCHANGED <<asserted, firstId>>
    /\ Logged(195, s)
    /\ IF ~state.parses
       THEN Crash
       ELSE /\ states' = MapSet(states, state.json.lobbyCode, state.json)
            /\ out' = NoOut
            /\ UNCHANGED <<status, code, rooms, clients, connectionCount,
                           crashed>>

\* socket.on('leave')
Leave(s) ==
    /\ Inbound(s)
    /\ msgs' = msgs + 1
    /\ IF code[s] # Null
       THEN /\ rooms' = [rooms EXCEPT ![code[s]] = @ \ {s}]
            /\ clients' = MapDelete(clients, s)
       ELSE UNCHANGED <<rooms, clients>>
    /\ Logged(206, s)
    /\ out' = NoOut
    /\ UNCHANGED <<status, code, states, connectionCount, crashed, asserted,
                   firstId>>

\* io.to(to).emit('signal', {data, from: socket.id})
SignalOut(s, to, data) ==
    {[to |-> m, data |-> data, from |-> s] : m \in rooms[to]}

\* the shape test of 'signal' without the test of signal.data
SignalTypedNoData(signal) ==
    signal.type = "object" /\ signal.to.type = "string"

\* the shape test of 'signal'; signal is [type, data, to]
SignalTyped(signal) ==
    signal.type = "object" /\ signal.data # "" /\ signal.to.type = "string"

\* socket.on('signal')
Signal(s, signal) ==
    /\ Inbound(s)
    /\ msgs' = msgs + 1
    /\ UNCHANGED <<asserted, firstId>>
    /\ IF ~SignalTyped(signal)
       THEN ForcedDisconnect(s) /\ Logged(212, s)
       ELSE /\ Logged(221, s)
            /\ out' = [bcast |-> {}, setClients |-> {},
                       signal |-> SignalOut(s, signal.to.val, signal.data)]
            /\ UNCHANGED <<status, code, rooms, clients, states, connectionCount,
                           crashed>>

\* the empty string, the one string the query handlers take for no roomCode
EmptyName == 0

\* GET /hasRoomCode: the isValid field of the answer
HasRoomCode(roomCode) ==
    IF roomCode # EmptyName THEN roomCode \in DOMAIN states ELSE FALSE

\* GET /gameState: the gameState field of the answer
GameState(roomCode) ==
    IF roomCode # EmptyName THEN MapGet(states, roomCode) ELSE Undefined

\* the arguments a client can send: the well-formed ones, and one ill-typed
\* value for each argument
SomeCode == CHOOSE c \in LobbyCodes : TRUE
CodeArgs == {Str(n) : n \in KnownNames}
PlayerIdArgs == {Num(p) : p \in PlayerIds}
ClientIdArgs == {Num(k) : k \in ClientIds}
IllTypedJoinArgs ==
    {<<Num(0), Num(0), Num(5)>>, <<Str(SomeCode), Undef, Num(5)>>,
     <<Str(SomeCode), Num(0), Undef>>}
JoinArgs == (CodeArgs \X PlayerIdArgs \X ClientIdArgs) \cup IllTypedJoinArgs
IllTypedIdArgs == {<<Undef, Num(5)>>, <<Num(0), Undef>>}
IdArgs == (PlayerIdArgs \X ClientIdArgs) \cup IllTypedIdArgs
Snapshots == [lobbyCode : LobbyCodes, gameState : GameStates]
StateArgs ==
    {[parses |-> TRUE, json |-> j] : j \in Snapshots}
    \cup {[parses |-> FALSE, json |-> <<>>]}
MalformedSignalArgs ==
    {[type |-> "object", data |-> "", to |-> Str(SomeCode)],
     [type |-> "object", data |-> "sdp", to |-> Undef],
     [type |-> "string", data |-> "sdp", to |-> Undef]}
SignalArgs ==
    {[type |-> "object", data |-> "sdp", to |-> Str(n)] : n \in KnownNames}
    \cup MalformedSignalArgs

Next ==
    \/ \E s \in Callers : Connect(s)
    \/ \E s \in Sessions : Disconnect(s)
    \/ \E s \in Sessions, a \in JoinArgs : Join(s, a[1], a[2], a[3])
    \/ \E s \in Sessions, a \in IdArgs : Id(s, a[1], a[2])
    \/ \E s \in Sessions, state \in StateArgs : PushState(s, state)
    \/ \E s \in Sessions : Leave(s)
    \/ \E s \in Sessions, sig \in SignalArgs : Signal(s, sig)

\* every event of the relay, two sessions
Spec == Init /\ [][Next]_vars

\* connections and join messages only, three sessions, the asserted clientIds
\* kept
JoinNext ==
    \/ \E s \in Sessions : Connect(s)
    \/ \E s \in Sessions, a \in JoinArgs : JoinRecorded(s, a[1], a[2], a[3])

JoinSpec == Init /\ [][JoinNext]_vars

\* join, id and leave messages of two sessions, the first bound clientId kept
IdNext ==
    \/ \E s \in Callers : Connect(s)
    \/ \E s \in Sessions : Disconnect(s)
    \/ \E s \in Sessions, a \in JoinArgs : Join(s, a[1], a[2], a[3])
    \/ \E s \in Sessions, a \in IdArgs : IdRecorded(s, a[1], a[2])
    \/ \E s \in Sessions : Leave(s)

IdSpec == Init /\ [][IdNext]_vars

\* the control messages join, id and signal of two sessions
ControlNext ==
    \/ \E s \in Callers : Connect(s)
    \/ \E s \in Sessions, a \in JoinArgs : Join(s, a[1], a[2], a[3])
    \/ \E s \in Sessions, a \in IdArgs : Id(s, a[1], a[2])
    \/ \E s \in Sessions, sig \in SignalArgs : Signal(s, sig)

ControlSpec == Init /\ [][ControlNext]_vars

(***************************************************************************)
(* The properties                                                          *)
(***************************************************************************)

\* the lobbies a session is a member of: the rooms it joined by a lobby code
LobbiesOf(s) == {c \in LobbyCodes : s \in rooms[c]}

\* the members of room r bound to clientId k
BoundTo(r, k) == {s \in rooms[r] : s \in DOMAIN clients /\ clients[s].clientId = k}

\* the clientIds that are not null
NonNullIds == ClientIds \ {Sentinel}

\* C1: in every reachable state each session is a member of at most one lobby.
C1_AtMostOneLobby ==
    \A s \in Sessions : Cardinality(LobbiesOf(s)) <= 1

\* C2: in every reachable state, for every lobby and every non-null clientId k,
\* at most one member of the lobby is bound to k.
C2_UniqueClientIdPerLobby ==
    \A c \in LobbyCodes, k \in NonNullIds : Cardinality(BoundTo(c, k)) <= 1

\* C3: when S1 has joined lobby L asserting the non-null clientId k and is still
\* a member, a join of L by another session S2 asserting k is rejected: S2 is
\* disconnected and is no member of L, and S1 remains a member of L.
C3_SecondJoinRejected ==
    [][\A s1, s2 \in Sessions, L \in LobbyCodes, p \in PlayerIds, k \in NonNullIds :
          ( /\ s1 # s2
            /\ code[s1] = L /\ s1 \in rooms[L] /\ asserted[s1] = k
            /\ JoinRecorded(s2, Str(L), Num(p), Num(k)) )
          => ( /\ status'[s2] = "disconnected"
               /\ s2 \notin rooms'[L]
               /\ s1 \in rooms'[L] )]_vars

\* C4: a well-formed signal {to: X, data: D} of session S to a connected
\* session X is delivered as {data: D, from: S} to X and to no other session.
C4_SignalExactDelivery ==
    [][\A s, x \in Sessions :
          ( /\ status[x] = "connected"
            /\ Signal(s, [type |-> "object", data |-> "sdp", to |-> Str(x)]) )
          => out'.signal = {[to |-> x, data |-> "sdp", from |-> s]}]_vars

\* every message so far was the first accepted join of a session, all of them
\* into lobby L, and no two of them asserted the same clientId
JoinsOnlyInto(L) ==
    /\ msgs = Cardinality({s \in Sessions : code[s] # Null})
    /\ \A s \in Sessions : code[s] \in {Null, L}
    /\ \A s1, s2 \in Sessions :
          (code[s1] # Null /\ code[s2] # Null /\ s1 # s2)
             => asserted[s1] # asserted[s2]

TwoJoins(s1, s2, L, p2, c2) ==
    /\ s1 # s2
    /\ msgs = 1
    /\ code[s1] = L /\ s1 \in rooms[L]
    /\ asserted[s1] \in NonNullIds \ {c2}
    /\ JoinRecorded(s2, Str(L), Num(p2), Num(c2))

\* the join event (S2, {p2, c2}) sent to S1 and to nobody else
JoinEventTo(s1, s2, p2, c2) ==
    {[to |-> s1, event |-> "join", from |-> s2,
      identity |-> [playerId |-> p2, clientId |-> c2]]}

C7_ClientIdImmutable ==
    \A s \in Sessions :
        (firstId[s] # Null /\ s \in DOMAIN clients)
           => clients[s].clientId = firstId[s]

\* C7 as amended: a bound non-null clientId does not change while the identity
\* stays bound: no step of id, join or leave replaces it by another value; it
\* can differ only after a leave or a disconnect has cleared the identity.
C7_ClientIdKeptWhileBound ==
    [][\A s \in Sessions :
          ( /\ s \in DOMAIN clients
            /\ clients[s].clientId # Null
            /\ s \in DOMAIN clients' )
          => clients'[s].clientId = clients[s].clientId]_vars

\* a session bound to a non-null clientId has had a join accepted and is still
\* bound to the clientId it bound first
C7_Witness ==
    \E s \in Sessions :
        /\ log = [line |-> 146, socket |-> s]
        /\ s \in DOMAIN clients
        /\ clients[s].clientId # Null
        /\ clients[s].clientId = firstId[s]

\* C8: an id message whose clientId differs from the bound non-null clientId
\* disconnects the session, stores nothing and emits nothing; an id message
\* repeating the bound playerId and clientId leaves the clients map unchanged
\* and emits only setClient messages, from the sender, with that identity.
C8_ReIdentify ==
    [][\A s \in Sessions :
          (log'.socket = s /\ msgs' # msgs /\ s \in DOMAIN clients)
          => \A p \in PlayerIds, k \in ClientIds :
                /\ ( /\ clients[s].clientId \notin {Null, k}
                     /\ IdHandler(s, Num(p), Num(k)) )
                   => ( /\ status'[s] = "disconnected"
                        /\ s \notin DOMAIN clients'
                        /\ out' = NoOut )
                /\ ( /\ clients[s] = [playerId |-> p, clientId |-> Normalize(k)]
                     /\ IdHandler(s, Num(p), Num(k)) )
                   => ( /\ clients' = clients
                        /\ status' = status
                        /\ out'.setClients = {} /\ out'.signal = {}
                        /\ \A m \in out'.bcast :
                              /\ m.event = "setClient"
                              /\ m.from = s
                              /\ m.to # s
                              /\ m.identity = clients[s] )]_vars

\* a member of a lobby has just been disconnected for an id message with
\* another clientId than its bound one, its peer still in the lobby
C8_Witness ==
    \E s, m \in Sessions :
        /\ s # m
        /\ log = [line |-> 182, socket |-> s]
        /\ status[s] = "disconnected"
        /\ code[s] \in LobbyCodes /\ m \in rooms[code[s]]
        /\ out = NoOut

\* C9: an id message carrying the sentinel, from a session with no identity or
\* with a stored null clientId, binds an identity whose clientId is null, and
\* every setClient it emits carries null; no bound identity ever holds the
\* sentinel.
C9_SentinelNormalized ==
    [][/\ \A s \in Sessions :
             ( /\ log'.socket = s /\ msgs' # msgs
               /\ (s \notin DOMAIN clients \/ clients[s].clientId = Null) )
             => \A p \in PlayerIds :
                   IdHandler(s, Num(p), Num(Sentinel))
                   => ( /\ s \in DOMAIN clients'
                        /\ clients'[s] = [playerId |-> p, clientId |-> Null]
                        /\ \A m \in out'.bcast :
                              m.event = "setClient" /\ m.identity.clientId = Null )
       /\ \A s \in DOMAIN clients' : clients'[s].clientId # Sentinel]_vars

\* a lobby member has just bound the null clientId and its peer was told
C9_Witness ==
    \E s \in Sessions :
        /\ log = [line |-> 177, socket |-> s]
        /\ s \in DOMAIN clients
        /\ clients[s].clientId = Null
        /\ \E m \in out.bcast :
              m.event = "setClient" /\ m.from = s /\ m.identity.clientId = Null

\* C10: a disconnected session is in no room and has no bound identity.
C10_DisconnectCleanup ==
    \A s \in Sessions :
        status[s] = "disconnected"
           => ( /\ \A r \in RoomNames : s \notin rooms[r]
                /\ s \notin DOMAIN clients )

\* a session that had joined a lobby and bound an identity has just been
\* disconnected by the relay, another session still being connected
C10_Witness ==
    \E s, m \in Sessions :
        /\ log = [line |-> 182, socket |-> s]
        /\ status[s] = "disconnected" /\ code[s] \in LobbyCodes
        /\ status[m] = "connected"

\* the state of the relay without the last emission and the histories
relay == <<status, code, rooms, clients, states, connectionCount, crashed>>

\* C11: right after a leave message of session S is handled, S is a member of
\* no lobby, has no bound identity and is still connected, whatever it did
\* before; a second leave right after the first changes nothing of the relay's
\* state.
C11_LeaveClears ==
    [][\A s \in Sessions :
          (log'.socket = s /\ msgs' # msgs /\ Leave(s))
          => ( /\ {c \in LobbyCodes : s \in rooms'[c]} = {}
               /\ s \notin DOMAIN clients'
               /\ status'[s] = "connected"
               /\ (log = [line |-> 206, socket |-> s] => relay' = relay) )]_vars

\* the snapshots for code C that the step pushes: the step is a pushstate
\* message whose stateJson parses to a snapshot with lobbyCode C
PushedFor(C) ==
    {j \in Snapshots :
        /\ j.lobbyCode = C
        /\ \E s \in Sessions : PushState(s, [parses |-> TRUE, json |-> j])}

\* C12: the snapshot query for a lobby code answers with the last snapshot
\* pushed for that code, by whatever session: it is absent (and the code not
\* valid) before the first message, a pushstate with a snapshot for code C
\* makes it that snapshot, and no other step changes it.
C12_PushQueryRoundTrip ==
    [][\A C \in LobbyCodes :
          /\ msgs = 0 => (GameState(C) = Undefined /\ ~HasRoomCode(C))
          /\ GameState(C)' \in
                (IF PushedFor(C) # {} THEN PushedFor(C) ELSE {GameState(C)})
          /\ HasRoomCode(C)' = (GameState(C)' # Undefined)]_vars

\* the step disconnects s, emits nothing, and neither adds a member to a room
\* nor binds or changes an identity
RejectedQuietly(s) ==
    /\ status' = [status EXCEPT ![s] = "disconnected"]
    /\ out' = NoOut
    /\ \A r \in RoomNames : rooms'[r] = rooms[r] \ {s}
    /\ DOMAIN clients' = (DOMAIN clients) \ {s}
    /\ \A m \in DOMAIN clients' : clients'[m] = clients[m]

FailedMessage(s) ==
    /\ log'.socket = s
    /\ msgs' # msgs
    /\ \/ log'.line \in {142, 154, 173, 182, 212}
       \/ PushState(s, [parses |-> FALSE, json |-> <<>>])

\* C14: a message of session S that fails (ill-typed, spoofing, identity
\* mismatch, or a pushstate that does not parse) changes neither the connected
\* status, the room membership nor the bound identity of any other session,
\* changes no stored snapshot, and leaves the relay running.
C14_ErrorIsolation ==
    [][\A s \in Sessions :
          FailedMessage(s)
          => ( /\ \A m \in Sessions \ {s} :
                     /\ status'[m] = status[m]
                     /\ \A r \in RoomNames : (m \in rooms'[r]) = (m \in rooms[r])
                     /\ MapGet(clients', m) = MapGet(clients, m)
               /\ states' = states
               /\ ~crashed' )]_vars

\* no session has joined a room named by a socket id: every membership but a
\* socket's own room is one of a lobby
OnlyLobbies ==
    \A r \in Sessions : rooms[r] \subseteq {r} /\ code[r] \notin Sessions

\* C15: an id message of session S that is accepted sends setClient, from S
\* and with the identity it bound, to exactly the other members of the lobbies
\* S is a member of at that moment (stated for the states in which all joins
\* were joins of lobby codes).
C15_SetClientScope ==
    [][\A s \in Sessions :
          (log'.socket = s /\ msgs' # msgs /\ OnlyLobbies)
          => \A p \in PlayerIds, k \in ClientIds :
                (IdHandler(s, Num(p), Num(k)) /\ status'[s] = "connected")
                => ( /\ {m.to : m \in out'.bcast}
                           = (UNION {rooms[c] : c \in LobbiesOf(s)}) \ {s}
                     /\ \A m \in out'.bcast :
                           /\ m.event = "setClient"
                           /\ m.from = s
                           /\ m.identity = clients'[s] )]_vars

\* s is Joined: it is a member of a room it asked to join, which is any room
\* but the one named by its own id unless it joined that one by name
Joined(s) == \E r \in RoomNames : s \in rooms[r] /\ (r # s \/ code[s] = s)

\* C16: every session is Connected(no lobby, no identity), Joined(lobby) with
\* or without an identity, or Disconnected(no lobby, no identity): a session
\* with a bound identity is connected and Joined.
C16_SessionStates ==
    \A s \in Sessions :
        /\ s \in DOMAIN clients => (status[s] = "connected" /\ Joined(s))
        /\ Joined(s) => status[s] = "connected"

C18_SnapshotsIndependent ==
    [][IF log'.line = 195 /\ msgs' # msgs
       THEN /\ status' = status /\ rooms' = rooms /\ clients' = clients
            /\ \A C \in DOMAIN states :
                  \/ C \in DOMAIN states' /\ states'[C] = states[C]
                  \/ PushedFor(C) # {}
            /\ \A C \in (DOMAIN states') \ (DOMAIN states) : PushedFor(C) # {}
       ELSE states' = states]_vars

\* the sessions that have connected and not disconnected
Connected == {s \in Sessions : status[s] = "connected"}

\* C19: connectionCount is the number of sessions that have connected and not
\* disconnected, and so never negative; a session's status only goes from
\* unconnected to connected and from connected to disconnected, so that it is
\* counted once and discounted once; a step that connects a session raises the
\* count by one, and a step that disconnects sessions, by the transport or by
\* a handler, lowers it by one for each.
C19_ConnectionCount ==
    [][/\ connectionCount = Cardinality(Connected)
       /\ connectionCount' = Cardinality(Connected')
       /\ connectionCount' >= 0
       /\ \A s \in Sessions :
             status'[s] # status[s]
             => \/ status[s] = "unconnected" /\ status'[s] = "connected"
                   /\ connectionCount' = connectionCount + 1
                \/ status[s] = "connected" /\ status'[s] = "disconnected"
                   /\ connectionCount'
                         = connectionCount - Cardinality(Connected \ Connected')]_vars

\* two sessions had connected and one has just been disconnected by the join
\* handler for spoofing the other, which leaves the count at one
C19_Witness ==
    \E s, m \in Sessions :
        /\ s # m
        /\ log = [line |-> 154, socket |-> s]
        /\ status[s] = "disconnected" /\ status[m] = "connected"
        /\ connectionCount = 1

\* C20: a well-typed join of lobby L asserting clientId k is rejected only if a
\* session other than the joiner is a member of L bound to k; otherwise the
\* joiner stays connected and is a member of L, also when it is itself a member
\* of L bound to k already.
C20_SpoofCheckSparesSelf ==
    [][\A s \in Sessions :
          (log'.socket = s /\ msgs' # msgs)
          => \A L \in LobbyCodes, p \in PlayerIds, k \in ClientIds :
                ( /\ BoundTo(L, k) \subseteq {s}
                  /\ JoinHandler(s, Str(L), Num(p), Num(k)) )
                => (status'[s] = "connected" /\ s \in rooms'[L])]_vars

====
